---- MODULE Spec2Model ----
(***************************************************************************)
(* Model of crates-tauri/yaak-app/src/plugins_ext.rs: the setup closure    *)
(* of the "yaak-plugins" Tauri plugin (bootstrap of the plugin manager)    *)
(* and its on_event handler for RunEvent::ExitRequested.                   *)
(*                                                                         *)
(* Strings are sequences of symbols; the symbol "/" is the path separator  *)
(* and every other symbol stands for a slash-free piece of text.           *)
(*                                                                         *)
(* The plugin's on_event callback is an FnMut closure that the host calls  *)
(* from its event loop, one event at a time, once setup has returned: a    *)
(* second ExitRequested event is queued while the first is being handled.  *)
(***************************************************************************)
EXTENDS Integers, Sequences, FiniteSets, TLC

VARIABLES
    host,           \* "starting" | "running" | "exited" | "aborted"
    pc,             \* position of the async block of the setup closure
    bundle,         \* the bundled plugin directories shipped with the app
    store,          \* persistent plugin table: directory -> record or None
    store0,         \* history: the store when this process started
    reconciled,     \* history: the store when a reconciliation last completed
    fromReconciled, \* history: this run's reconciliation started from it
    manager,        \* "none" | "constructed" | "initializing" | "initialized"
    bundled_dirs,   \* local of setup (line 129)
    i,              \* index of the reconciliation loop (line 136)
    db,             \* TRUE while the connection of line 135 is held
    upserts,        \* history: the upsert_plugin calls of this run
    plugins,        \* local of setup (line 152)
    initCalls,      \* history: calls of initialize_all_plugins
    failures,       \* history: what initialize_all_plugins returned
    errors,         \* the part of the failure list not yet iterated
    emitted,        \* history: the emit("show_toast") calls and their results
    managed,        \* the manager is in the app's managed state
    failedAt,       \* history: the fallible call that returned a failure
    EXITING,        \* static EXITING: AtomicBool (line 31)
    raised,         \* exit requests raised by the OS / the user
    pending,        \* ExitRequested events queued in the event loop
    hpc,            \* position of the on_event handler
    prevented,      \* api.prevent_exit() was called for the current event
    term,           \* "idle" | "running" | "done": the runtime's terminate()
    terminateCalls, \* history: calls of manager.terminate()
    exitCalls,      \* history: calls of app.exit(0)
    exitCode,       \* history: the status app.exit was called with, -1 if none
    steps,          \* history: the statements of the async block, as begun
    initArg,        \* history: the records given to initialize_all_plugins
    created,        \* PluginManager instances constructed in this process
    cmds            \* the command invocations of this process, see StartCommand

bootVars == <<pc, manager, bundled_dirs, i, db, upserts, plugins, initCalls,
              failures, errors, emitted, managed, failedAt>>
storeVars == <<store, store0, reconciled, fromReconciled>>
exitVars == <<EXITING, pending, hpc, prevented, term, terminateCalls, exitCalls>>
logVars == <<exitCode, steps, initArg>>
cmdVars == <<created, cmds>>
vars == <<host, bundle, raised, bootVars, storeVars, exitVars, logVars, cmdVars>>

----------------------------------------------------------------------------
(* Bounds *)
MaxBundled == 2      \* longest bundle
MaxSignals == 2      \* exit requests the OS raises in one process lifetime
MaxCommands == 2     \* commands the frontend invokes in one process lifetime

(* Data *)
NoUrl == "None"                 \* Option<String>::None of Plugin.url
NoRecord == <<>>                \* an Option is <<>> or <<value>>
Some(v) == <<v>>
Background == "Background"      \* UpdateSource::Background
ToastTimeout == 10000           \* timeout: Some(10000)
ExitStatus == 0                 \* app.exit(0)
NoExitCode == -1

CoreA == <<"core", "/", "a">>
CoreB == <<"core", "/", "b">>
UserX == <<"x">>
BundleDirs == {CoreA, CoreB}
Dirs == BundleDirs \cup {UserX}
DirOrder == <<CoreA, CoreB, UserX>>
ErrorMsgs == {<<"missing dependency">>, <<"timeout">>}

Range(s) == {s[k] : k \in 1..Len(s)}
Max(S) == CHOOSE x \in S : \A y \in S : y <= x

\* yaak_models::models::Plugin, the fields this file sets
Plugin(dir, enabled, url) == [directory |-> dir, enabled |-> enabled, url |-> url]
StoredPlugins(dir) ==
    {Plugin(dir, e, NoUrl) : e \in BOOLEAN}
    \cup (IF dir \in BundleDirs THEN {} ELSE {Plugin(dir, TRUE, "https://x")})
Stores == {s \in [Dirs -> {NoRecord} \cup UNION {{Some(p) : p \in StoredPlugins(d)} : d \in Dirs}] :
             \A d \in Dirs : s[d] = NoRecord \/ s[d][1] \in StoredPlugins(d)}
Bundles == {s \in UNION {[1..n -> BundleDirs] : n \in 0..MaxBundled} :
              \A a, b \in 1..Len(s) : a # b => s[a] # s[b]}

----------------------------------------------------------------------------
(* The Store collaborator *)
get_plugin_by_directory(s, dir) == s[dir]
upsert_plugin(s, plugin) == [s EXCEPT ![plugin.directory] = Some(plugin)]
RECURSIVE ListFrom(_, _)
ListFrom(s, k) ==
    IF k > Len(DirOrder) THEN <<>>
    ELSE s[DirOrder[k]]
         \o ListFrom(s, k + 1)
list_plugins(s) == ListFrom(s, 1)

(* The PluginManager collaborator: initialize_all_plugins returns the      *)
(* failures, in the order of the records, one entry per failed record.     *)
RECURSIVE FailureLists(_)
FailureLists(recs) ==
    IF recs = <<>> THEN {<<>>}
    ELSE LET rest == FailureLists(Tail(recs)) IN
         rest \cup {<<<<Head(recs).directory, m>>>> \o r : m \in ErrorMsgs, r \in rest}

----------------------------------------------------------------------------
(* Pure parts of the setup closure *)

\* line 137: the record is inserted only if the directory has none
NeedsUpsertAlways(s, dir) == TRUE
NeedsUpsertUnlessEnabled(s, dir) ==
    \/ get_plugin_by_directory(s, dir) = NoRecord
    \/ ~get_plugin_by_directory(s, dir)[1].enabled
NeedsUpsert(s, dir) == get_plugin_by_directory(s, dir) = NoRecord

\* lines 139-144: the record inserted for a bundled directory
BundledPluginDisabled(dir) == Plugin(dir, FALSE, NoUrl)
BundledPlugin(dir) == Plugin(dir, TRUE, NoUrl)

\* line 160: plugin_dir.split('/').last().unwrap_or(&plugin_dir)
SlashesOf(str) == {k \in 1..Len(str) : str[k] = "/"}
FirstSegment(str) ==
    IF SlashesOf(str) = {} THEN str
    ELSE SubSeq(str, 1, (CHOOSE k \in SlashesOf(str) : \A j \in SlashesOf(str) : k <= j) - 1)
LastSegment(str) ==
    IF SlashesOf(str) = {} THEN str
    ELSE SubSeq(str, Max(SlashesOf(str)) + 1, Len(str))

\* lines 161-166: the toast built for one failure
ToastOfFirstSegment(plugin_dir, error_msg) ==
    [message |-> <<"Failed to start plugin '">> \o FirstSegment(plugin_dir) \o <<"': ">> \o error_msg,
     color |-> "Danger", icon |-> "AlertTriangle", timeout |-> ToastTimeout]
Toast(plugin_dir, error_msg) ==
    [message |-> <<"Failed to start plugin '">> \o LastSegment(plugin_dir) \o <<"': ">> \o error_msg,
     color |-> "Danger", icon |-> "AlertTriangle", timeout |-> ToastTimeout]

\* .expect(..): the closure goes on only with an Ok / Some value
ExpectIgnored(ok) == TRUE
Expect(ok) == ok

\* lines 167-169: a failed emit is logged, the loop goes on
EmitErrorPanics(emit_ok) == ~emit_ok
EmitErrorEscalates(emit_ok) == FALSE

\* line 153: drop(db) releases the connection
DropDbForgotten(held) == held
DropDb(held) == FALSE

\* lines 152-156: the listed records are handed over as they are
InitializeArgsEnabledOnly(listed) == SelectSeq(listed, LAMBDA p : p.enabled)
InitializeArgs(listed) == listed

\* line 118: block_on drives the async block to its end before setup returns
BlockOnSpawned(p) == p # "panicked"
BlockOnComplete(p) == p = "return"

----------------------------------------------------------------------------
Init ==
    /\ host = "starting"
    /\ pc = "resolve_vendored"
    /\ bundle \in Bundles
    /\ store \in Stores
    /\ store0 = store
    /\ reconciled = NoRecord
    /\ fromReconciled = FALSE
    /\ manager = "none"
    /\ bundled_dirs = <<>>
    /\ i = 1
    /\ db = FALSE
    /\ upserts = <<>>
    /\ plugins = <<>>
    /\ initCalls = 0
    /\ failures = <<>>
    /\ errors = <<>>
    /\ emitted = <<>>
    /\ managed = FALSE
    /\ failedAt = "none"
    /\ EXITING = FALSE
    /\ raised = 0
    /\ pending = 0
    /\ hpc = "idle"
    /\ prevented = FALSE
    /\ term = "idle"
    /\ terminateCalls = 0
    /\ exitCalls = 0
    /\ exitCode = NoExitCode
    /\ steps = <<>>
    /\ initArg = <<>>
    /\ created = 0
    /\ cmds = <<>>

\* the async block runs while the process lives
Alive == host \in {"starting", "running"}

\* a panic of the setup closure: the process dies, nothing else of it runs
Panic ==
    /\ host' = "aborted"
    /\ pc' = "panicked"
    /\ db' = FALSE


\* lines 87-112: the four path resolutions, each with .expect
ResolveOrderNodeFirst == <<"resolve_vendored", "resolve_node", "resolve_app_data",
                           "resolve_runtime", "new">>
ResolveOrder == <<"resolve_vendored", "resolve_app_data", "resolve_node",
                  "resolve_runtime", "new">>
PositionOf(p) == CHOOSE k \in 1..Len(ResolveOrder) : ResolveOrder[k] = p
ResolvePath ==
    /\ Alive
    /\ pc \in Range(ResolveOrder) \ {"new"}
    /\ \E ok \in BOOLEAN :
        /\ failedAt' = IF ok THEN failedAt ELSE pc
        /\ IF Expect(ok)
           THEN /\ pc' = ResolveOrder[PositionOf(pc) + 1]
                /\ UNCHANGED <<host, db>>
           ELSE Panic
    /\ steps' = Append(steps, pc)
    /\ UNCHANGED <<exitCode, initArg, cmdVars>>
    /\ UNCHANGED <<bundle, raised, storeVars, exitVars, manager, bundled_dirs, i,
                   upserts, plugins, initCalls, failures, errors, emitted, managed>>

\* lines 119-126: PluginManager::new(..).await
NewManager ==
    /\ Alive
    /\ pc = "new"
    /\ manager' = "constructed"
    /\ pc' = "list_bundled"
    /\ steps' = Append(steps, "new")
    /\ created' = created + 1
    /\ UNCHANGED <<exitCode, initArg, cmds>>
    /\ UNCHANGED <<host, bundle, raised, storeVars, exitVars, bundled_dirs, i, db,
                   upserts, plugins, initCalls, failures, errors, emitted, managed,
                   failedAt>>

\* lines 129-135: list_bundled_plugin_dirs().await.expect(..), then the
\* connection is taken
ListBundled ==
    /\ Alive
    /\ pc = "list_bundled"
    /\ \E ok \in BOOLEAN :
        /\ failedAt' = IF ok THEN failedAt ELSE pc
        /\ IF Expect(ok)
           THEN /\ bundled_dirs' = IF ok THEN bundle ELSE <<>>
                /\ i' = 1
                /\ db' = TRUE
                /\ pc' = "reconcile"
                /\ fromReconciled' = (reconciled = Some(store))
                /\ UNCHANGED host
           ELSE /\ Panic
                /\ UNCHANGED <<bundled_dirs, i, fromReconciled>>
    /\ steps' = Append(steps, "list_bundled")
    /\ UNCHANGED <<exitCode, initArg, cmdVars>>
    /\ UNCHANGED <<bundle, raised, store, store0, reconciled, exitVars, manager,
                   upserts, plugins, initCalls, failures, errors, emitted, managed>>

\* lines 136-149: one iteration of the reconciliation loop
ReconcileDir ==
    /\ Alive
    /\ pc = "reconcile"
    /\ i <= Len(bundled_dirs)
    /\ LET dir == bundled_dirs[i] IN
       IF NeedsUpsert(store, dir)
       THEN \E ok \in BOOLEAN :
              /\ failedAt' = IF ok THEN failedAt ELSE "upsert_plugin"
              /\ store' = IF ok THEN upsert_plugin(store, BundledPlugin(dir)) ELSE store
              /\ upserts' = Append(upserts, [plugin |-> BundledPlugin(dir),
                                             source |-> Background, ok |-> ok])
              /\ IF Expect(ok)
                 THEN /\ i' = i + 1
                      /\ UNCHANGED <<host, pc, db>>
                 ELSE /\ Panic
                      /\ UNCHANGED i
       ELSE /\ i' = i + 1
            /\ UNCHANGED <<host, pc, db, store, upserts, failedAt>>
    /\ steps' = Append(steps, "reconcile")
    /\ UNCHANGED <<exitCode, initArg, cmdVars>>
    /\ UNCHANGED <<bundle, raised, store0, reconciled, fromReconciled, exitVars,
                   manager, bundled_dirs, plugins, initCalls, failures, errors,
                   emitted, managed>>

\* lines 152-153: list_plugins().expect(..), then drop(db)
ListPlugins ==
    /\ Alive
    /\ pc = "reconcile"
    /\ i > Len(bundled_dirs)
    /\ \E ok \in BOOLEAN :
        /\ failedAt' = IF ok THEN failedAt ELSE "list_plugins"
        /\ IF Expect(ok)
           THEN /\ plugins' = IF ok THEN list_plugins(store) ELSE <<>>
                /\ db' = DropDb(db)
                /\ pc' = "initialize"
                /\ UNCHANGED host
           ELSE /\ Panic
                /\ UNCHANGED plugins
    /\ reconciled' = Some(store)
    /\ steps' = Append(steps, "list_plugins")
    /\ UNCHANGED <<exitCode, initArg, cmdVars>>
    /\ UNCHANGED <<bundle, raised, store, store0, fromReconciled, exitVars, manager,
                   bundled_dirs, i, upserts, initCalls, failures, errors, emitted,
                   managed>>


\* lines 155-156: manager.initialize_all_plugins(plugins, ..) is called
InitializeCall ==
    /\ Alive
    /\ pc = "initialize"
    /\ initCalls' = initCalls + 1
    /\ manager' = "initializing"
    /\ pc' = "initializing"
    /\ steps' = Append(steps, "initialize_call")
    /\ initArg' = InitializeArgs(plugins)
    /\ UNCHANGED <<exitCode, cmdVars>>
    /\ UNCHANGED <<host, bundle, raised, storeVars, exitVars, bundled_dirs, i, db,
                   upserts, plugins, failures, errors, emitted, managed, failedAt>>

\* lines 155-156 with the failure list taken as a fatal error
InitializeReturnOrPanic ==
    /\ Alive
    /\ pc = "initializing"
    /\ \E errs \in FailureLists(plugins) :
        /\ failures' = errs
        /\ errors' = errs
        /\ manager' = "initialized"
        /\ IF errs = <<>>
           THEN pc' = "toast" /\ UNCHANGED <<host, db>>
           ELSE Panic
    /\ steps' = Append(steps, "initialize")
    /\ UNCHANGED <<exitCode, initArg, cmdVars>>
    /\ UNCHANGED <<bundle, raised, storeVars, exitVars, bundled_dirs, i,
                   upserts, plugins, initCalls, emitted, managed, failedAt>>

\* lines 155-156: .await returns the failure list; it is data, not an Err
InitializeReturn ==
    /\ Alive
    /\ pc = "initializing"
    /\ \E errs \in FailureLists(plugins) :
        /\ failures' = errs
        /\ errors' = errs
    /\ manager' = "initialized"
    /\ pc' = "toast"
    /\ steps' = Append(steps, "initialize")
    /\ UNCHANGED <<exitCode, initArg, cmdVars>>
    /\ UNCHANGED <<host, bundle, raised, storeVars, exitVars, bundled_dirs, i, db,
                   upserts, plugins, initCalls, emitted, managed, failedAt>>

\* lines 159-170: one iteration of the toast loop
EmitToast ==
    /\ Alive
    /\ pc = "toast"
    /\ errors # <<>>
    /\ LET plugin_dir == Head(errors)[1]
           error_msg == Head(errors)[2]
       IN \E emit_ok \in BOOLEAN :
           /\ emitted' = Append(emitted, [toast |-> Toast(plugin_dir, error_msg),
                                          ok |-> emit_ok])
           /\ IF EmitErrorEscalates(emit_ok)
              THEN /\ Panic
                   /\ UNCHANGED errors
              ELSE /\ errors' = Tail(errors)
                   /\ UNCHANGED <<host, pc, db>>
    /\ steps' = Append(steps, "toast")
    /\ UNCHANGED <<exitCode, initArg, cmdVars>>
    /\ UNCHANGED <<bundle, raised, storeVars, exitVars, manager, bundled_dirs, i,
                   upserts, plugins, initCalls, failures, managed, failedAt>>

\* line 172 left out: the async block ends without manage(manager)
ManageForgotten ==
    /\ Alive
    /\ pc = "toast"
    /\ errors = <<>>
    /\ pc' = "return"
    /\ steps' = Append(steps, "manage")
    /\ UNCHANGED <<host, bundle, raised, storeVars, exitVars, manager, bundled_dirs,
                   i, db, upserts, plugins, initCalls, failures, errors, emitted,
                   failedAt, managed, exitCode, initArg, cmdVars>>

\* line 172: app_handle_clone.manage(manager)
Manage ==
    /\ Alive
    /\ pc = "toast"
    /\ errors = <<>>
    /\ managed' = TRUE
    /\ pc' = "return"
    /\ steps' = Append(steps, "manage")
    /\ UNCHANGED <<exitCode, initArg, cmdVars>>
    /\ UNCHANGED <<host, bundle, raised, storeVars, exitVars, manager, bundled_dirs,
                   i, db, upserts, plugins, initCalls, failures, errors, emitted,
                   failedAt>>

\* lines 118 and 173-175: block_on is over, setup returns Ok(()) and the
\* host starts its event loop
SetupReturn ==
    /\ host = "starting"
    /\ BlockOnComplete(pc)
    /\ host' = "running"
    /\ pc' = IF pc = "return" THEN "done" ELSE pc
    /\ UNCHANGED <<logVars, cmdVars>>
    /\ UNCHANGED <<bundle, raised, storeVars, exitVars, manager, bundled_dirs, i,
                   db, upserts, plugins, initCalls, failures, errors, emitted,
                   managed, failedAt>>

----------------------------------------------------------------------------
(* The on_event handler, lines 177-191 *)

\* line 179: swap(true, ..) stores true whatever the flag held
SwapToggles(old) == ~old
SwapStores(old) == TRUE

\* line 179: the value swap returned decides whether the handler goes on
AlreadyExitingNever(old) == FALSE
AlreadyExiting(old) == old

\* line 186: .await; app.exit(0) is reached when terminate() has returned
AwaitedNot(t) == TRUE
Awaited(t) == t = "done"

\* the OS or the user asks the application to exit
RaiseExit ==
    /\ Alive
    /\ raised < MaxSignals
    /\ raised' = raised + 1
    /\ pending' = pending + 1
    /\ UNCHANGED <<logVars, cmdVars>>
    /\ UNCHANGED <<host, bundle, bootVars, storeVars, EXITING, hpc, prevented, term,
                   terminateCalls, exitCalls>>

\* line 178: the event loop hands the next ExitRequested event to the handler
ExitRequested ==
    /\ host = "running"
    /\ hpc = "idle"
    /\ pending > 0
    /\ pending' = pending - 1
    /\ prevented' = FALSE
    /\ hpc' = "swap"
    /\ UNCHANGED <<logVars, cmdVars>>
    /\ UNCHANGED <<host, bundle, raised, bootVars, storeVars, EXITING, term,
                   terminateCalls, exitCalls>>

\* lines 179-182 with prevent_exit() called before the flag is looked at
SwapExitingPreventFirst ==
    /\ host = "running"
    /\ hpc = "swap"
    /\ EXITING' = SwapStores(EXITING)
    /\ prevented' = TRUE
    /\ hpc' = IF AlreadyExiting(EXITING) THEN "return" ELSE "prevent_exit"
    /\ UNCHANGED <<host, bundle, raised, bootVars, storeVars, pending,
                   term, terminateCalls, exitCalls, logVars, cmdVars>>

\* lines 179-181: EXITING.swap(true, SeqCst), return if it was set
SwapExiting ==
    /\ host = "running"
    /\ hpc = "swap"
    /\ EXITING' = SwapStores(EXITING)
    /\ hpc' = IF AlreadyExiting(EXITING) THEN "return" ELSE "prevent_exit"
    /\ UNCHANGED <<logVars, cmdVars>>
    /\ UNCHANGED <<host, bundle, raised, bootVars, storeVars, pending, prevented,
                   term, terminateCalls, exitCalls>>

\* line 182: api.prevent_exit()
PreventExit ==
    /\ host = "running"
    /\ hpc = "prevent_exit"
    /\ prevented' = TRUE
    /\ hpc' = "terminate"
    /\ UNCHANGED <<logVars, cmdVars>>
    /\ UNCHANGED <<host, bundle, raised, bootVars, storeVars, EXITING, pending,
                   term, terminateCalls, exitCalls>>

\* lines 185-186: app.state() (panics when nothing is managed), then
\* manager.terminate() is called
TerminateCall ==
    /\ host = "running"
    /\ hpc = "terminate"
    /\ IF managed
       THEN /\ terminateCalls' = terminateCalls + 1
            /\ term' = "running"
            /\ hpc' = "await"
            /\ UNCHANGED host
       ELSE /\ host' = "aborted"
            /\ hpc' = "panicked"
            /\ UNCHANGED <<term, terminateCalls>>
    /\ UNCHANGED <<logVars, cmdVars>>
    /\ UNCHANGED <<bundle, raised, bootVars, storeVars, EXITING, pending, prevented,
                   exitCalls>>

\* the plugin runtime finishes terminate()
TerminateDone ==
    /\ host = "running"
    /\ term = "running"
    /\ term' = "done"
    /\ UNCHANGED <<logVars, cmdVars>>
    /\ UNCHANGED <<host, bundle, raised, bootVars, storeVars, EXITING, pending, hpc,
                   prevented, terminateCalls, exitCalls>>

\* line 187: app.exit(0) asks the event loop to exit, which raises
\* ExitRequested again
AppExit ==
    /\ host = "running"
    /\ hpc = "await"
    /\ Awaited(term)
    /\ exitCalls' = exitCalls + 1
    /\ pending' = pending + 1
    /\ hpc' = "return"
    /\ exitCode' = ExitStatus
    /\ UNCHANGED <<steps, initArg, cmdVars>>
    /\ UNCHANGED <<host, bundle, raised, bootVars, storeVars, EXITING, prevented,
                   term, terminateCalls>>

\* lines 180 and 189: the handler returns; the host exits unless the exit
\* was prevented
HandlerReturn ==
    /\ host = "running"
    /\ hpc = "return"
    /\ hpc' = "idle"
    /\ host' = IF prevented THEN host ELSE "exited"
    /\ UNCHANGED <<logVars, cmdVars>>
    /\ UNCHANGED <<bundle, raised, bootVars, storeVars, EXITING, pending, prevented,
                   term, terminateCalls, exitCalls>>

----------------------------------------------------------------------------
(* The commands, lines 37-77.  A command is a task of the async runtime:  *)
(* its statements interleave with those of other commands and with the    *)
(* on_event handler, which blocks only the event loop.                    *)
(*   kind, arg   the command and its name / plugin_id argument            *)
(*   pc          "await" | "done"                                         *)
(*   h           the PluginManager instance its handle refers to, 0: none *)
(*   calls       invocations of search_plugins / download_and_install /   *)
(*               delete_and_uninstall                                     *)
(*   failed      a collaborator returned a failure                        *)
(*   result      "none" | "ok" | "err": what the command returned         *)
(*   returned    the Plugin an uninstall returned, as an Option           *)
(*   flipped     EXITING when the collaborator acted                      *)
(*   termAtUse   the state of the exit handler's terminate() when it acted *)

CommandKinds == {"search", "install", "uninstall"}
CommandArgs(kind) == IF kind = "uninstall" THEN {UserX, CoreA} ELSE {UserX}
NewCommand(kind, arg) ==
    [kind |-> kind, arg |-> arg, pc |-> "await", h |-> 0, calls |-> 0,
     failed |-> FALSE, result |-> "none", returned |-> NoRecord,
     flipped |-> FALSE, termAtUse |-> "none"]

(* The collaborators of the commands *)
\* the record download_and_install leaves for the plugin it installed
InstalledPlugin(dir) == Plugin(dir, TRUE, "https://x")
delete_plugin(s, dir) == [s EXCEPT ![dir] = NoRecord]
\* the runtime an instance refers to: the one setup built is instance 1
RuntimeState(h) == IF h = 1 THEN term ELSE "idle"
\* a terminated runtime serves no install or uninstall
RuntimeServesAlways(t) == TRUE
RuntimeServes(t) == t # "done"

\* lines 52 and 73: Arc::new((*window.state::<PluginManager>()).clone())
CommandManagerFresh(instance, n) == n + 1
CommandManager(instance, n) == instance

\* lines 42-43, 53, 64 and 76: `?` returns the collaborator's Err, Ok otherwise
ReturnedSwallowed(outcome) == "ok"
Returned(outcome) == outcome

\* line 76: Ok(delete_and_uninstall(..).await?) hands on the deleted record
UninstallReturnsDefault(deleted) == Some(Plugin(<<>>, FALSE, NoUrl))
UninstallReturns(deleted) == deleted

\* the frontend invokes a command, which runs to its first await: the manager
\* is taken from the managed state (lines 52 and 73), the api client is built
\* (lines 42 and 53, `?` returns its Err) and the collaborator is called
\* (lines 43, 56-63 and 76)
StartCommand ==
    /\ host = "running"
    /\ Len(cmds) < MaxCommands
    /\ \E kind \in CommandKinds : \E arg \in CommandArgs(kind) : \E client \in BOOLEAN :
        LET c == NewCommand(kind, arg)
            m == IF kind = "search" THEN 0 ELSE CommandManager(1, created)
        IN  /\ kind = "uninstall" => client
            /\ IF kind # "search" /\ ~managed
               THEN /\ cmds' = Append(cmds, [c EXCEPT !.pc = "done", !.result = "err"])
                    /\ UNCHANGED created
               ELSE /\ cmds' = Append(cmds,
                                  IF client
                                  THEN [c EXCEPT !.h = m, !.calls = 1]
                                  ELSE [c EXCEPT !.h = m, !.pc = "done",
                                                 !.failed = TRUE,
                                                 !.result = Returned("err")])
                    /\ created' = IF m > created THEN m ELSE created
    /\ UNCHANGED <<host, bundle, raised, bootVars, storeVars, exitVars, logVars>>

\* lines 43-44: search_plugins(..).await? returns
SearchReturns ==
    /\ host = "running"
    /\ \E k \in 1..Len(cmds) : \E ok \in BOOLEAN :
        /\ cmds[k].pc = "await"
        /\ cmds[k].kind = "search"
        /\ cmds' = [cmds EXCEPT ![k].pc = "done", ![k].failed = ~ok,
                      ![k].flipped = EXITING,
                      ![k].result = Returned(IF ok THEN "ok" ELSE "err")]
    /\ UNCHANGED <<host, bundle, raised, bootVars, storeVars, exitVars, logVars,
                   created>>

\* lines 56-65: download_and_install(..).await? returns
InstallReturns ==
    /\ host = "running"
    /\ \E k \in 1..Len(cmds) : \E ok \in BOOLEAN :
        /\ cmds[k].pc = "await"
        /\ cmds[k].kind = "install"
        /\ ok => RuntimeServes(RuntimeState(cmds[k].h))
        /\ store' = IF ok THEN upsert_plugin(store, InstalledPlugin(cmds[k].arg))
                    ELSE store
        /\ cmds' = [cmds EXCEPT ![k].pc = "done", ![k].failed = ~ok,
                      ![k].flipped = EXITING,
                      ![k].termAtUse = term,
                      ![k].result = Returned(IF ok THEN "ok" ELSE "err")]
    /\ UNCHANGED <<host, bundle, raised, bootVars, store0, reconciled,
                   fromReconciled, exitVars, logVars, created>>

\* line 76: delete_and_uninstall(..).await? returns
UninstallReturnsPlugin ==
    /\ host = "running"
    /\ \E k \in 1..Len(cmds) : \E ok \in BOOLEAN :
        /\ cmds[k].pc = "await"
        /\ cmds[k].kind = "uninstall"
        /\ ok => /\ RuntimeServes(RuntimeState(cmds[k].h))
                 /\ get_plugin_by_directory(store, cmds[k].arg) # NoRecord
        /\ store' = IF ok THEN delete_plugin(store, cmds[k].arg) ELSE store
        /\ cmds' = [cmds EXCEPT ![k].pc = "done", ![k].failed = ~ok,
                      ![k].flipped = EXITING,
                      ![k].termAtUse = term,
                      ![k].returned = IF ok /\ Returned("ok") = "ok"
                                      THEN UninstallReturns(store[cmds[k].arg])
                                      ELSE NoRecord,
                      ![k].result = Returned(IF ok THEN "ok" ELSE "err")]
    /\ UNCHANGED <<host, bundle, raised, bootVars, store0, reconciled,
                   fromReconciled, exitVars, logVars, created>>

\* the application is launched again: statics and locals start afresh, the
\* store and the bundle are what the last process left
Restart ==
    /\ host \in {"exited", "aborted"}
    /\ host' = "starting"
    /\ pc' = "resolve_vendored"
    /\ store0' = store
    /\ fromReconciled' = FALSE
    /\ manager' = "none"
    /\ bundled_dirs' = <<>>
    /\ i' = 1
    /\ db' = FALSE
    /\ upserts' = <<>>
    /\ plugins' = <<>>
    /\ initCalls' = 0
    /\ failures' = <<>>
    /\ errors' = <<>>
    /\ emitted' = <<>>
    /\ managed' = FALSE
    /\ failedAt' = "none"
    /\ EXITING' = FALSE
    /\ raised' = 0
    /\ pending' = 0
    /\ hpc' = "idle"
    /\ prevented' = FALSE
    /\ term' = "idle"
    /\ terminateCalls' = 0
    /\ exitCalls' = 0
    /\ exitCode' = NoExitCode
    /\ steps' = <<>>
    /\ initArg' = <<>>
    /\ created' = 0
    /\ cmds' = <<>>
    /\ UNCHANGED <<bundle, store, reconciled>>

Next ==
    \/ ResolvePath
    \/ NewManager
    \/ ListBundled
    \/ ReconcileDir
    \/ ListPlugins
    \/ InitializeCall
    \/ InitializeReturn
    \/ EmitToast
    \/ Manage
    \/ SetupReturn
    \/ RaiseExit
    \/ ExitRequested
    \/ SwapExiting
    \/ PreventExit
    \/ TerminateCall
    \/ TerminateDone
    \/ AppExit
    \/ HandlerReturn
    \/ Restart

\* setup and exit, over every bundle and store, with no command invoked
Spec == Init /\ [][Next]_vars

\* the statements of the async block in the order a setup without failure
\* runs them
RECURSIVE Repeat(_, _)
Repeat(x, n) == IF n = 0 THEN <<>> ELSE <<x>> \o Repeat(x, n - 1)
StepsOfSetup(b) ==
    <<"resolve_vendored", "resolve_app_data", "resolve_node", "resolve_runtime",
      "new", "list_bundled">> \o Repeat("reconcile", Len(b))
    \o <<"list_plugins", "initialize_call", "initialize", "manage">>

\* a process whose setup has just returned: the bundle is [core/a, core/b],
\* the store is one of S and held a record for both, every plugin started
PostSetup(S) ==
    /\ host = "running"
    /\ pc = "done"
    /\ bundle = <<CoreA, CoreB>>
    /\ store \in {s \in S : \A d \in Range(bundle) : s[d] # NoRecord}
    /\ store0 = store
    /\ reconciled = Some(store)
    /\ fromReconciled = TRUE
    /\ manager = "initialized"
    /\ bundled_dirs = bundle
    /\ i = Len(bundle) + 1
    /\ db = FALSE
    /\ upserts = <<>>
    /\ plugins = list_plugins(store)
    /\ initCalls = 1
    /\ failures = <<>>
    /\ errors = <<>>
    /\ emitted = <<>>
    /\ managed = TRUE
    /\ failedAt = "none"
    /\ EXITING = FALSE
    /\ raised = 0
    /\ pending = 0
    /\ hpc = "idle"
    /\ prevented = FALSE
    /\ term = "idle"
    /\ terminateCalls = 0
    /\ exitCalls = 0
    /\ exitCode = NoExitCode
    /\ steps = StepsOfSetup(bundle)
    /\ initArg = InitializeArgs(list_plugins(store))
    /\ created = 1
    /\ cmds = <<>>

\* the commands start from a store that holds the records reconciliation
\* writes and at most a plugin the user installed
CmdInit ==
    PostSetup({s \in Stores :
                 /\ \A d \in BundleDirs : s[d] = Some(Plugin(d, TRUE, NoUrl))
                 /\ s[UserX] \in {NoRecord, Some(InstalledPlugin(UserX))}})

\* the exit handler starts from every store
ExitInit == PostSetup(Stores)

ExitNext ==
    \/ RaiseExit
    \/ ExitRequested
    \/ SwapExiting
    \/ PreventExit
    \/ TerminateCall
    \/ TerminateDone
    \/ AppExit
    \/ HandlerReturn

CmdNext ==
    \/ ExitNext
    \/ StartCommand
    \/ SearchReturns
    \/ InstallReturns
    \/ UninstallReturnsPlugin

\* the running process: the commands and the exit handler
CmdSpec == CmdInit /\ [][CmdNext]_vars

\* the running process and its exit handler alone: the event loop hands every
\* queued event to the handler, the handler runs on, and terminate() returns
ExitFairSpec ==
    /\ ExitInit
    /\ [][ExitNext]_vars
    /\ WF_vars(ExitRequested)
    /\ WF_vars(SwapExiting)
    /\ WF_vars(PreventExit)
    /\ WF_vars(TerminateCall)
    /\ WF_vars(TerminateDone)
    /\ WF_vars(AppExit)
    /\ WF_vars(HandlerReturn)

TypeOK ==
    /\ host \in {"starting", "running", "exited", "aborted"}
    /\ bundle \in Bundles
    /\ store \in Stores
    /\ managed \in BOOLEAN
    /\ EXITING \in BOOLEAN
    /\ raised \in 0..MaxSignals
    /\ pending \in 0..(MaxSignals + 1)

FairSpec == Spec /\ WF_vars(EmitToast) /\ WF_vars(Manage)

----------------------------------------------------------------------------
(* Properties *)

\* positions of the async block after the reconciliation loop
AfterReconcile == {"initialize", "initializing", "toast", "return", "done"}
AfterToasts == {"return", "done"}
EmptyStore == [d \in Dirs |-> NoRecord]

\* C1: however many exit requests arrive, the one raised by app.exit(0)
\* included, terminate() is called at most once and app.exit(0) at most
\* once, and a process that has exited has called each exactly once.
C1_SingleFireExit ==
    /\ terminateCalls <= 1
    /\ exitCalls <= 1
    /\ host = "exited" => terminateCalls = 1 /\ exitCalls = 1
C1_Witness ==
    /\ host = "exited"
    /\ raised = 2
    /\ terminateCalls = 1
    /\ exitCalls = 1

\* C2: the process does not exit before terminate() has completed, and it
\* does not exit while a drain is in progress even with exit requests queued.
C2_TerminateBeforeExit ==
    /\ host = "exited" => term = "done"
    /\ term = "running" => host = "running" /\ hpc = "await" /\ prevented
C2_Witness ==
    /\ host = "exited"
    /\ term = "done"
    /\ raised = 2
    /\ pending = 1

\* C3: the manager is in managed state only after initialize_all_plugins
\* has returned, and setup has returned only if the manager is managed.
C3_PublishedAfterInitialize ==
    /\ managed => manager = "initialized" /\ initCalls = 1 /\ pc \in AfterToasts
    /\ host \in {"running", "exited"} => managed /\ pc = "done"
C3_Witness ==
    /\ host = "running"
    /\ managed
    /\ failures # <<>>

\* C4: a reconciliation that starts from the store a completed
\* reconciliation of the same bundle left performs no upsert and leaves the
\* store as it found it.
C4_ReconcileIdempotent ==
    fromReconciled =>
        /\ upserts = <<>>
        /\ host = "starting" => store = store0
C4_Witness ==
    /\ fromReconciled
    /\ pc = "initialize"
    /\ Len(bundled_dirs) = 2
    /\ store0 # EmptyStore

\* C5: once the reconciliation loop is over every bundled directory has a
\* record; every upsert wrote an enabled record without url, tagged
\* Background, for a bundled directory that had no record; from an empty
\* store and the bundle [core/a, core/b] the store holds exactly those two
\* enabled records.
C5_BundledRecordsInserted ==
    (host = "starting" /\ pc \in AfterReconcile) =>
        /\ \A d \in Range(bundle) : store[d] # NoRecord
        /\ \A k \in 1..Len(upserts) :
              /\ upserts[k].ok
              /\ upserts[k].source = "Background"
              /\ upserts[k].plugin.enabled
              /\ upserts[k].plugin.url = "None"
              /\ upserts[k].plugin.directory \in Range(bundle)
              /\ store0[upserts[k].plugin.directory] = <<>>
              /\ store[upserts[k].plugin.directory] = <<upserts[k].plugin>>
        /\ \A d \in Range(bundle) :
              store0[d] = <<>> => \E k \in 1..Len(upserts) : upserts[k].plugin.directory = d
        /\ (store0 = EmptyStore /\ bundle = <<CoreA, CoreB>>) =>
              /\ store[UserX] = <<>>
              /\ store[CoreA] = <<[directory |-> CoreA, enabled |-> TRUE, url |-> "None"]>>
              /\ store[CoreB] = <<[directory |-> CoreB, enabled |-> TRUE, url |-> "None"]>>
C5_Witness ==
    /\ host = "starting"
    /\ pc = "return"
    /\ store0 = EmptyStore
    /\ bundle = <<CoreA, CoreB>>
    /\ Len(upserts) = 2

\* C6: while setup runs, every record the store held when the process
\* started is still there, unchanged.
C6_ExistingRecordsKept ==
    host = "starting" =>
        \A d \in Dirs : store0[d] # NoRecord => store[d] = store0[d]
C6_Witness ==
    /\ host = "starting"
    /\ pc = "return"
    /\ bundle = <<CoreB, CoreA>>
    /\ store0[CoreA] = <<[directory |-> CoreA, enabled |-> FALSE, url |-> "None"]>>
    /\ store0[UserX] # NoRecord
    /\ Len(upserts) = 1

\* text containment, and the last path segment stated on its own: a
\* slash-free suffix that is the whole text or follows a "/"
Contains(text, part) ==
    \E from \in 1..(Len(text) + 1) :
        /\ from + Len(part) - 1 <= Len(text)
        /\ \A k \in 1..Len(part) : text[from + k - 1] = part[k]
IsLastSegmentOf(seg, dir) ==
    /\ Len(seg) <= Len(dir)
    /\ \A k \in 1..Len(seg) : seg[k] = dir[Len(dir) - Len(seg) + k] /\ seg[k] # "/"
    /\ Len(seg) = Len(dir) \/ dir[Len(dir) - Len(seg)] = "/"

\* C7: the emits are the failure entries, one each and in order: none
\* before initialize_all_plugins has returned, all of them once the loop is
\* over; each message contains the last path segment of the directory and
\* the error text, with Danger, AlertTriangle and the fixed timeout.
C7_OneToastPerFailure ==
    /\ Len(emitted) + Len(errors) = Len(failures)
    /\ pc \in AfterToasts => Len(emitted) = Len(failures)
    /\ \A k \in 1..Len(emitted) :
          /\ k <= Len(failures)
          /\ \E seg \in {SubSeq(failures[k][1], a, Len(failures[k][1])) :
                            a \in 1..(Len(failures[k][1]) + 1)} :
                /\ IsLastSegmentOf(seg, failures[k][1])
                /\ Contains(emitted[k].toast.message, seg)
          /\ Contains(emitted[k].toast.message, failures[k][2])
          /\ emitted[k].toast.color = "Danger"
          /\ emitted[k].toast.icon = "AlertTriangle"
          /\ emitted[k].toast.timeout = 10000
C7_Witness ==
    /\ pc = "return"
    /\ Len(plugins) = 3
    /\ failures = <<<<CoreB, <<"missing dependency">>>>>>
    /\ Len(emitted) = 1
    /\ Contains(emitted[1].toast.message, <<"b">>)
    /\ Contains(emitted[1].toast.message, <<"missing dependency">>)

\* C8: once initialize_all_plugins has returned, whatever it returned,
\* setup does not panic, and from the toast loop the manager gets managed.
C8_FailuresNeverAbort ==
    /\ [](manager = "initialized" => pc # "panicked" /\ host # "aborted")
    /\ ((pc = "toast") ~> managed)
C8_Witness ==
    /\ Len(plugins) = 3
    /\ Len(failures) = 2
    /\ managed
    /\ host = "running"

\* C9: a failure of a path resolution, of list_bundled_plugin_dirs, of
\* upsert_plugin or of list_plugins leaves the process aborted at that
\* step: initialize_all_plugins is not called and nothing is managed.
C9_FatalFailureAborts ==
    failedAt # "none" =>
        /\ host = "aborted"
        /\ pc = "panicked"
        /\ initCalls = 0
        /\ manager # "initialized"
        /\ ~managed
        /\ failedAt \in {"list_bundled", "upsert_plugin"} => plugins = <<>>
C9_Witness ==
    /\ failedAt = "upsert_plugin"
    /\ host = "aborted"
    /\ Len(upserts) = 2

\* C10: with a failed emit behind it setup has not panicked, the loop still
\* emits for every remaining failure, and setup returns with the manager
\* managed.
C10_EmitFailureNotEscalated ==
    (\E k \in 1..Len(emitted) : ~emitted[k].ok) =>
        /\ host # "aborted"
        /\ pc \in {"toast", "return", "done"}
        /\ Len(emitted) + Len(errors) = Len(failures)
        /\ pc \in AfterToasts => managed /\ Len(emitted) = Len(failures)
        /\ host = "running" => managed
C10_Witness ==
    /\ host = "running"
    /\ managed
    /\ Len(emitted) = 2
    /\ ~emitted[1].ok
    /\ emitted[2].ok

----------------------------------------------------------------------------
(* Properties of the commands and of the exit handler *)

CommandIds == 1..Len(cmds)
UsesManager(c) == c.kind \in {"install", "uninstall"}

\* C11: one PluginManager is constructed per process; the handle of every
\* install and uninstall is that instance, the one the exit handler
\* terminates, so a command that reaches the runtime after terminate() has
\* completed does not succeed.
C11_SharedHandle ==
    /\ created <= 1
    /\ managed => created = 1
    /\ \A k \in CommandIds :
          /\ cmds[k].h \in {0, 1}
          /\ cmds[k].pc = "await" /\ UsesManager(cmds[k])
                => cmds[k].h = 1
          /\ cmds[k].termAtUse = "done" => cmds[k].result = "err"
C11_Witness ==
    /\ Len(cmds) = 2
    /\ cmds[1].kind = "install" /\ cmds[1].h = 1 /\ cmds[1].result = "ok"
    /\ cmds[2].kind = "uninstall" /\ cmds[2].h = 1
    /\ cmds[2].termAtUse = "done" /\ cmds[2].result = "err"
    /\ terminateCalls = 1
    /\ created = 1

\* C12: a command whose collaborator failed returns an error, a command
\* that returned Ok called its collaborator once, no command calls it twice;
\* a step of a search changes neither the store, nor the managed manager,
\* nor the exit guard.
C12_FailuresSurfaced ==
    /\ [](\A k \in CommandIds :
            /\ cmds[k].calls <= 1
            /\ cmds[k].failed => cmds[k].pc = "done" /\ cmds[k].result = "err"
            /\ cmds[k].result = "ok" => ~cmds[k].failed /\ cmds[k].calls = 1
            /\ cmds[k].pc = "done" => cmds[k].result \in {"ok", "err"})
    /\ [][\A k \in CommandIds :
            (Len(cmds') = Len(cmds) /\ cmds[k].kind = "search" /\ cmds'[k] # cmds[k])
                => UNCHANGED <<store, managed, manager, created, EXITING, term>>]_vars
C12_Witness ==
    /\ Len(cmds) = 2
    /\ cmds[1].kind = "search" /\ cmds[1].failed /\ cmds[1].calls = 1
    /\ cmds[1].result = "err"
    /\ cmds[2].kind = "install" /\ cmds[2].failed /\ cmds[2].calls = 1
    /\ cmds[2].result = "err"

\* C13: a successful uninstall leaves the store without a record for the
\* plugin and returns the record the store held, whose directory is the
\* plugin's; after a successful install into a store that had no record for
\* it, that is the record install created.
C13_InstallUninstallRoundTrip ==
    [][\A k \in CommandIds :
         (/\ Len(cmds') = Len(cmds)
          /\ cmds[k].kind = "uninstall"
          /\ cmds[k].result = "none"
          /\ cmds'[k].result = "ok")
            => /\ store'[cmds[k].arg] = <<>>
               /\ cmds'[k].returned # <<>>
               /\ cmds'[k].returned = store[cmds[k].arg]
               /\ cmds'[k].returned[1].directory = cmds[k].arg
               /\ \A j \in CommandIds :
                     (/\ cmds[j].kind = "install"
                      /\ cmds[j].arg = cmds[k].arg
                      /\ cmds[j].result = "ok"
                      /\ store0[cmds[k].arg] = <<>>)
                        => cmds'[k].returned[1] =
                             [directory |-> cmds[k].arg, enabled |-> TRUE, url |-> "https://x"]]_vars
C13_Witness ==
    /\ Len(cmds) = 2
    /\ cmds[1].kind = "install" /\ cmds[1].arg = UserX /\ cmds[1].result = "ok"
    /\ cmds[2].kind = "uninstall" /\ cmds[2].arg = UserX /\ cmds[2].result = "ok"
    /\ store0[UserX] = <<>>
    /\ store[UserX] = <<>>
    /\ cmds[2].returned # <<>>
    /\ cmds[2].returned[1].directory = UserX

\* the statements of the async block in the order the claim gives
StepOrder ==
    <<"resolve_vendored", "resolve_app_data", "resolve_node", "resolve_runtime",
      "new", "list_bundled", "reconcile", "list_plugins", "initialize_call",
      "initialize", "toast", "manage">>
StepRank(x) ==
    CASE x = "resolve_vendored" -> 1
      [] x = "resolve_app_data" -> 2
      [] x = "resolve_node" -> 3
      [] x = "resolve_runtime" -> 4
      [] x = "new" -> 5
      [] x = "list_bundled" -> 6
      [] x = "reconcile" -> 7
      [] x = "list_plugins" -> 8
      [] x = "initialize_call" -> 9
      [] x = "initialize" -> 10
      [] x = "toast" -> 11
      [] x = "manage" -> 12
Loops == {"reconcile", "toast"}

\* C14: the statements of the async block begin in the order resolution,
\* construction, enumeration, reconciliation, load, initialize, publication:
\* each one follows its predecessor in that order (a loop may repeat or run
\* no iteration), and while initialize_all_plugins is in progress nothing
\* else has begun.
C14_StepsInOrder ==
    /\ steps # <<>> => steps[1] = "resolve_vendored"
    /\ \A a \in 1..(Len(steps) - 1) :
          LET r == StepRank(steps[a])
              q == StepRank(steps[a + 1])
          IN \/ q = r + 1
             \/ q = r /\ steps[a] \in Loops
             \/ q = r + 2 /\ StepOrder[r + 1] \in Loops
    /\ manager = "initializing" => steps[Len(steps)] = "initialize_call"
    /\ managed => \E a \in 1..Len(steps) : steps[a] = "initialize"
C14_Witness ==
    /\ host = "starting"
    /\ pc = "return"
    /\ Len(bundled_dirs) = 2
    /\ Len(emitted) = 2
    /\ Len(steps) = 14

\* C15: the connection is held only between the return of
\* list_bundled_plugin_dirs and the call of initialize_all_plugins, never
\* while initialize_all_plugins runs.
C15_NoConnectionAcrossAwait ==
    /\ db => /\ pc = "reconcile"
             /\ manager = "constructed"
             /\ \E a \in 1..Len(steps) : steps[a] = "list_bundled"
             /\ \A a \in 1..Len(steps) : steps[a] # "initialize_call"
    /\ manager = "initializing" => ~db
    /\ pc \in {"initialize", "initializing", "toast", "return", "done"} => ~db
C15_Witness ==
    /\ manager = "initializing"
    /\ ~db
    /\ Len(upserts) = 2

\* C16: initialize_all_plugins is given one entry for every record of the
\* store as reconciliation left it, disabled ones included, and nothing else.
C16_AllRecordsInitialized ==
    (host = "starting" /\ initCalls = 1) =>
        /\ Len(initArg) = Cardinality({d \in Dirs : store[d] # <<>>})
        /\ \A d \in Dirs : store[d] # <<>> =>
              \E k \in 1..Len(initArg) : initArg[k] = store[d][1]
        /\ \A d \in Range(bundle) : \E k \in 1..Len(initArg) : initArg[k].directory = d
        /\ \A d \in Dirs : store0[d] # <<>> =>
              \E k \in 1..Len(initArg) : initArg[k] = store0[d][1]
C16_Witness ==
    /\ host = "starting"
    /\ initCalls = 1
    /\ Len(initArg) = 3
    /\ store0[UserX] # <<>>
    /\ store0[CoreB] = <<>>
    /\ ~initArg[1].enabled

\* C17: the handler that finds the guard set goes straight to its return:
\* no prevent_exit, no terminate(), no app.exit, the guard still set; and
\* the guard, once set, is not reset while the process lives.
C17_SecondSignalNoOp ==
    /\ [][(hpc = "swap" /\ hpc' # "swap" /\ EXITING) =>
            /\ hpc' = "return"
            /\ ~prevented'
            /\ EXITING'
            /\ UNCHANGED <<term, terminateCalls, exitCalls, pending>>]_vars
    /\ [][(hpc = "return" /\ hpc' # "return" /\ ~prevented) =>
            /\ host' = "exited"
            /\ UNCHANGED <<EXITING, term, terminateCalls, exitCalls, pending>>]_vars
    /\ [][(EXITING /\ ~EXITING') => host' = "starting"]_vars
C17_Witness ==
    /\ hpc = "return"
    /\ ~prevented
    /\ EXITING
    /\ terminateCalls = 1
    /\ exitCalls = 1
    /\ raised = 2

\* C18: with terminate() returning, a handler that has started leads to the
\* exit of the process; the process exits after one drain, app.exit having
\* been called with status 0.
C18_DrainThenExit ==
    /\ (hpc = "swap") ~> (host = "exited")
    /\ [](host = "exited" =>
            exitCode = 0 /\ terminateCalls = 1 /\ exitCalls = 1 /\ hpc = "idle")
C18_Witness ==
    /\ host = "exited"
    /\ exitCode = 0
    /\ raised = 1
    /\ pending = 0
    /\ exitCalls = 1

\* C19 as claimed: a command whose collaborator acted with the exit guard
\* set does not report success.
C19_NoSuccessAfterGuard ==
    \A k \in CommandIds :
        (UsesManager(cmds[k]) /\ cmds[k].flipped) => cmds[k].result # "ok"

\* C19: an install or uninstall reports success only if its collaborator
\* acted before terminate() had completed; with the guard set and
\* terminate() not yet complete it may still succeed.
C19_NoSuccessAfterTerminate ==
    \A k \in CommandIds :
        (UsesManager(cmds[k]) /\ cmds[k].result = "ok") =>
            /\ cmds[k].termAtUse \in {"idle", "running"}
            /\ cmds[k].h = 1
            /\ term = "idle" => cmds[k].termAtUse = "idle"
C19_Witness ==
    /\ Len(cmds) = 2
    /\ cmds[1].kind = "install" /\ cmds[1].flipped /\ cmds[1].result = "ok"
    /\ cmds[1].termAtUse = "running"
    /\ cmds[2].kind = "uninstall" /\ cmds[2].arg = UserX
    /\ cmds[2].termAtUse = "done" /\ cmds[2].result = "err"
    /\ store[UserX] # <<>>

\* C20: the handler runs only in a process whose setup has returned with
\* the manager managed: exit requests raised earlier wait in the queue, and
\* the lookup of the manager never panics.
C20_ExitFindsManager ==
    /\ hpc # "panicked"
    /\ hpc # "idle" => host = "running" /\ managed /\ pc = "done"
    /\ host \in {"starting", "aborted"} => hpc = "idle" /\ terminateCalls = 0
C20_Witness ==
    /\ hpc = "terminate"
    /\ managed
    /\ raised = 2
    /\ pending = 1

====
